---- MODULE Spec2Model ----
(***************************************************************************)
(* Secondary-index write path of the PostgreSQL accounts plugin            *)
(* (src/src/postgres_client/postgres_client_account_index.rs): the token   *)
(* owner / token mint index buffers of SimplePostgresClient, the prepared  *)
(* single-row and bulk upsert statements, and the two index tables the     *)
(* statements act on.                                                      *)
(***************************************************************************)
EXTENDS Integers, Sequences, FiniteSets, TLC

(* ------------------------------ bounds -------------------------------- *)

\* Largest configured batch_size explored (config.batch_size is any positive integer).
MaxBatch == 2

\* Largest slot carried by an account update (slot is an i64 in the code).
MaxSlot == 2

\* A pending Vec is never bounded by the code: the rows explored beyond
\* batch_size, so that an over-full buffer is reachable.
MaxExcess == 1

(* ------------------------------ constants ----------------------------- *)

TOKEN_INDEX_COLUMN_COUNT == 3

\* Option::None of unpack_account_owner / unpack_account_mint.
None == "None"

\* inline_spl_token::id() and inline_spl_token_2022::id().
inline_spl_token_id == "spl_token"

inline_spl_token_2022_id == "spl_token_2022"

\* Owning program ids of the accounts delivered: the two token programs and another one.
ProgramIds == {inline_spl_token_id, inline_spl_token_2022_id, "other_program"}

\* Account public keys, token owner keys and token mint keys.
Pubkeys == {"X", "Y"}

OwnerKeys == {"O"}

MintKeys == {"M"}

Slots == 1..MaxSlot

\* account.data(): the bytes at the owner and mint offsets of the token
\* layout, and whether the payload is as long as the layout requires.
Payloads == [len_ok : BOOLEAN, owner : OwnerKeys, mint : MintKeys]

\* DbAccountInfo, as far as this file reads it: pubkey(), owner(), data(), slot.
\* Every token account of the bounds, and one account of each kind that is
\* not recognised (another owning program, a payload too short).
DbAccountInfo ==
    {a \in [pubkey : Pubkeys, owner : ProgramIds, data : Payloads, slot : Slots] :
        (a.owner = "other_program" \/ ~a.data.len_ok) => (a.pubkey = "X" /\ a.slot = 1)}

\* struct TokenSecondaryIndex { owner, account_key, slot }: `owner` holds the
\* owner key in the owner index and the mint key in the mint index.
TokenSecondaryIndex(key, account_key, slot) ==
    [owner |-> key, account_key |-> account_key, slot |-> slot]

OWNER_TABLE == "spl_token_owner_index"

MINT_TABLE == "spl_token_mint_index"

TableNames == {OWNER_TABLE, MINT_TABLE}

(* ------------------------------ state --------------------------------- *)

VARIABLES
    batch_size,                  \* self.batch_size, the configured batch size
    index_token_owner,           \* self.index_token_owner
    index_token_mint,            \* self.index_token_mint
    pending_token_owner_index,   \* self.pending_token_owner_index : Vec<TokenSecondaryIndex>
    pending_token_mint_index,    \* self.pending_token_mint_index  : Vec<TokenSecondaryIndex>
    db,                          \* the rows of the two index tables in the database
    last,                        \* the last call: its name, its return value, the statements it sent
    client,                      \* self.client: who holds the &mut to the connection, whose statement is executing
    observed,                    \* history: per table and key, the largest slot the engine has derived a row with
    submitted                    \* history: per table and key, the largest slot a statement that succeeded carried

vars == <<batch_size, index_token_owner, index_token_mint, pending_token_owner_index,
          pending_token_mint_index, db, last, client, observed, submitted>>

(* ------------------------- Token Account Classifier ------------------- *)

\* GenericTokenAccount::unpack_account_owner for variant G: the owner key at
\* the layout's offset, None when the payload is shorter than the layout.
unpack_account_owner(G, data) ==
    IF data.len_ok THEN data.owner ELSE None

\* GenericTokenAccount::unpack_account_mint for variant G.
unpack_account_mint(G, data) ==
    IF data.len_ok THEN data.mint ELSE None

(* --------------------------- Statement Builder ------------------------ *)

\* "(${}, ${}, ${})" for row j of the bulk statement: row = j * 3,
\* placeholders row + 1, row + 2, row + 3.
ValStr(j) ==
    LET row == j * TOKEN_INDEX_COLUMN_COUNT
    IN  <<row + 1, row + 2, row + 3>>

\* The prepared statement, as the parts of its text: the table, the three
\* columns, one tuple of placeholders per VALUES row, the conflict target and
\* the WHERE condition of DO UPDATE SET slot=excluded.slot.
Statement(table, source_key_name, tuples, where) ==
    [table    |-> table,
     columns  |-> <<source_key_name, "account_key", "slot">>,
     values   |-> tuples,
     conflict |-> <<source_key_name, "account_key">>,
     where    |-> where]

\* Faulty variant: the single-row owner statement without its WHERE clause.
build_single_token_owner_index_upsert_statement_no_where ==
    Statement(OWNER_TABLE, "owner_key", <<<<1, 2, 3>>>>, "")

build_single_token_owner_index_upsert_statement ==
    Statement(OWNER_TABLE, "owner_key", <<<<1, 2, 3>>>>, "owner_index.slot < excluded.slot")

build_single_token_mint_index_upsert_statement ==
    Statement(MINT_TABLE, "mint_key", <<<<1, 2, 3>>>>, "mint_index.slot < excluded.slot")

\* Faulty variant: the bulk statement without the WHERE clause of handle_conflict.
build_bulk_token_index_insert_statement_common_no_where(table, source_key_name, n) ==
    Statement(table, source_key_name, [i \in 1..n |-> ValStr(i - 1)], "")

\* for j in 0..batch_size: one value tuple per j, in order, then handle_conflict.
build_bulk_token_index_insert_statement_common(table, source_key_name, n) ==
    Statement(table, source_key_name, [i \in 1..n |-> ValStr(i - 1)],
              "index.slot < excluded.slot")

build_bulk_token_owner_index_insert_statement(n) ==
    build_bulk_token_index_insert_statement_common(OWNER_TABLE, "owner_key", n)

build_bulk_token_mint_index_insert_statement(n) ==
    build_bulk_token_index_insert_statement_common(MINT_TABLE, "mint_key", n)

\* Faulty variant: the message of the error names the key column, not the table.
prepare_bulk_token_index_insert_statement_names_column(table, source_key_name, n, prepare_err) ==
    IF prepare_err
    THEN [ret       |-> "DataSchemaError",
          msg       |-> <<"Error in preparing for the ", source_key_name,
                          " index update PostgreSQL database">>,
          statement |-> <<>>,
          prepares  |-> 1]
    ELSE [ret       |-> "Ok",
          msg       |-> <<>>,
          statement |-> <<build_bulk_token_index_insert_statement_common(
                              table, source_key_name, n)>>,
          prepares  |-> 1]

\* let bulk_stmt = client.prepare(&stmt); match bulk_stmt { Err => Err(DataSchemaError
\* { msg }), Ok(statement) => Ok(statement) }: the Result of the builder, as
\* its kind, the parts of its message, the statement it carries (none, or
\* one) and the calls of client.prepare made.
prepare_bulk_token_index_insert_statement(table, source_key_name, n, prepare_err) ==
    IF prepare_err
    THEN [ret       |-> "DataSchemaError",
          msg       |-> <<"Error in preparing for the ", table,
                          " index update PostgreSQL database">>,
          statement |-> <<>>,
          prepares  |-> 1]
    ELSE [ret       |-> "Ok",
          msg       |-> <<>>,
          statement |-> <<build_bulk_token_index_insert_statement_common(
                              table, source_key_name, n)>>,
          prepares  |-> 1]

\* The column of the indexed key in each table.
SourceKeyName(table) == IF table = OWNER_TABLE THEN "owner_key" ELSE "mint_key"

(* --------------------------- Database Gateway ------------------------- *)

\* The rows a statement proposes for insertion once `params` are bound to its
\* placeholders: VALUES tuple i takes its three columns from the parameters
\* its placeholders number.
BoundRows(stmt, params) ==
    [i \in 1..Len(stmt.values) |->
        TokenSecondaryIndex(params[stmt.values[i][1]],
                            params[stmt.values[i][2]],
                            params[stmt.values[i][3]])]

\* The rows of `tbl` that conflict with row r on (indexed key, account_key).
Conflicting(tbl, r) ==
    {e \in tbl : e.owner = r.owner /\ e.account_key = r.account_key}

\* Faulty variant: the WHERE condition compares the slots the other way round.
DoUpdateWhere_reversed(where, stored, excluded) ==
    IF where \in {"owner_index.slot < excluded.slot", "mint_index.slot < excluded.slot",
                  "index.slot < excluded.slot"}
    THEN stored > excluded
    ELSE TRUE

\* Whether DO UPDATE applies to a stored row of slot `stored` when the row
\* proposed has slot `excluded`: the statement's WHERE condition, each of
\* the three texts comparing the stored slot with the excluded one by <.
DoUpdateWhere(where, stored, excluded) ==
    IF where \in {"owner_index.slot < excluded.slot", "mint_index.slot < excluded.slot",
                  "index.slot < excluded.slot"}
    THEN stored < excluded
    ELSE TRUE

\* Faulty variant: DO UPDATE applied whatever the WHERE condition says.
UpsertRow_unconditional(tbl, r, where) ==
    (tbl \ Conflicting(tbl, r)) \cup {r}

\* INSERT ... ON CONFLICT (key, account_key) DO UPDATE SET slot=excluded.slot
\* WHERE ..., for one proposed row: inserted when no row conflicts, the stored
\* slot replaced when the WHERE condition holds, else nothing.
UpsertRow(tbl, r, where) ==
    LET existing == Conflicting(tbl, r)
    IN  IF existing = {} THEN tbl \cup {r}
        ELSE IF \E e \in existing : DoUpdateWhere(where, e.slot, r.slot)
             THEN (tbl \ existing) \cup {r}
             ELSE tbl

\* The proposed rows applied in VALUES order. PostgreSQL rejects the whole
\* command ("ON CONFLICT DO UPDATE command cannot affect row a second time")
\* when a proposed row conflicts with a row this same command inserted or
\* updated; `touched` are the keys the command has written so far.
RECURSIVE InsertOnConflict(_, _, _, _, _)
InsertOnConflict(rows, i, tbl, touched, where) ==
    IF i > Len(rows) THEN [err |-> FALSE, tbl |-> tbl]
    ELSE LET r    == rows[i]
             pair == <<r.owner, r.account_key>>
             next == UpsertRow(tbl, r, where)
         IN  IF Conflicting(tbl, r) # {} /\ pair \in touched
             THEN [err |-> TRUE, tbl |-> tbl]
             ELSE InsertOnConflict(rows, i + 1, next,
                                   IF next # tbl THEN touched \cup {pair} ELSE touched,
                                   where)

\* client.execute / client.query of a prepared statement against table `tbl`.
\* The call fails when the connection does (`fail`), when the parameters
\* supplied are not as many as the statement's placeholders, or when the
\* command is rejected; a failed statement changes no row.
Execute(tbl, stmt, params, fail) ==
    IF fail \/ Len(params) # Len(stmt.values) * Len(stmt.columns)
    THEN [err |-> TRUE, tbl |-> tbl]
    ELSE LET done == InsertOnConflict(BoundRows(stmt, params), 1, tbl, {}, stmt.where)
         IN  IF done.err THEN [err |-> TRUE, tbl |-> tbl] ELSE done

(* ------------------------------ Index Buffer -------------------------- *)

\* Faulty variant: the account key pushed before the indexed key.
RECURSIVE PushValues_account_first(_, _, _)
PushValues_account_first(indexes, n, values) ==
    IF n = 0 \/ indexes = <<>> THEN values
    ELSE PushValues_account_first(Tail(indexes), n - 1,
                    values \o <<Head(indexes).account_key, Head(indexes).owner,
                                Head(indexes).slot>>)

RECURSIVE PushValues(_, _, _)
\* for index in indexes.iter().take(batch_size): push owner, account_key and
\* slot of each row, in order, onto `values`.
PushValues(indexes, n, values) ==
    IF n = 0 \/ indexes = <<>> THEN values
    ELSE PushValues(Tail(indexes), n - 1,
                    values \o <<Head(indexes).owner, Head(indexes).account_key,
                                Head(indexes).slot>>)

\* What one call returns and leaves behind: the buffer, the table, the
\* Result and the statements it sent to the database with their parameters.
Outcome(indexes, tbl, ret, issued) ==
    [indexes |-> indexes, tbl |-> tbl, ret |-> ret, issued |-> issued]

\* Faulty variant: flushes a buffer of at least batch_size rows.
bulk_insert_token_index_common_at_least(n, tbl, indexes, query, fail) ==
    IF Len(indexes) >= n
    THEN LET values == PushValues(indexes, n, <<>>)
             result == Execute(tbl, query, values, fail)
             issued == <<[stmt |-> query, params |-> values]>>
         IN  IF result.err
             THEN Outcome(<<>>, result.tbl, "AccountsUpdateError", issued)
             ELSE Outcome(<<>>, result.tbl, "Ok", issued)
    ELSE Outcome(indexes, tbl, "Ok", <<>>)

\* Faulty variant: the buffer is not cleared after the query.
bulk_insert_token_index_common_keeps_rows(n, tbl, indexes, query, fail) ==
    IF Len(indexes) = n
    THEN LET values == PushValues(indexes, n, <<>>)
             result == Execute(tbl, query, values, fail)
             issued == <<[stmt |-> query, params |-> values]>>
         IN  IF result.err
             THEN Outcome(indexes, result.tbl, "AccountsUpdateError", issued)
             ELSE Outcome(indexes, result.tbl, "Ok", issued)
    ELSE Outcome(indexes, tbl, "Ok", <<>>)

\* Faulty variant: the buffer is cleared only after the error check, so a failed
\* flush returns with its rows still buffered.
bulk_insert_token_index_common_clears_late(n, tbl, indexes, query, fail) ==
    IF Len(indexes) = n
    THEN LET values == PushValues(indexes, n, <<>>)
             result == Execute(tbl, query, values, fail)
             issued == <<[stmt |-> query, params |-> values]>>
         IN  IF result.err
             THEN Outcome(indexes, result.tbl, "AccountsUpdateError", issued)
             ELSE Outcome(<<>>, result.tbl, "Ok", issued)
    ELSE Outcome(indexes, tbl, "Ok", <<>>)

\* fn bulk_insert_token_index_common(batch_size, client, indexes, query):
\* `tbl` is the table `query` writes, `fail` whether the connection fails.
bulk_insert_token_index_common(n, tbl, indexes, query, fail) ==
    IF Len(indexes) = n
    THEN LET values == PushValues(indexes, n, <<>>)
             result == Execute(tbl, query, values, fail)
             issued == <<[stmt |-> query, params |-> values]>>
         IN  IF result.err
             THEN Outcome(<<>>, result.tbl, "AccountsUpdateError", issued)
             ELSE Outcome(<<>>, result.tbl, "Ok", issued)
    ELSE Outcome(indexes, tbl, "Ok", <<>>)

\* Faulty variant: the owning program id is not compared with token_id.
queue_token_owner_index_generic_any_program(pending, G, token_id, account) ==
    IF unpack_account_owner(G, account.data) # None
    THEN Append(pending, TokenSecondaryIndex(unpack_account_owner(G, account.data),
                                             account.pubkey, account.slot))
    ELSE pending

\* fn queue_token_owner_index_generic::<G>(&mut self, token_id, account),
\* as the value of self.pending_token_owner_index after the call.
queue_token_owner_index_generic(pending, G, token_id, account) ==
    IF account.owner = token_id /\ unpack_account_owner(G, account.data) # None
    THEN Append(pending, TokenSecondaryIndex(unpack_account_owner(G, account.data),
                                             account.pubkey, account.slot))
    ELSE pending

\* Faulty variant: the owning program id is not compared with token_id, so
\* both variants take the account.
queue_token_mint_index_generic_any_program(pending, G, token_id, account) ==
    IF unpack_account_mint(G, account.data) # None
    THEN Append(pending, TokenSecondaryIndex(unpack_account_mint(G, account.data),
                                             account.pubkey, account.slot))
    ELSE pending

\* fn queue_token_mint_index_generic::<G>(&mut self, token_id, account),
\* as the value of self.pending_token_mint_index after the call.
queue_token_mint_index_generic(pending, G, token_id, account) ==
    IF account.owner = token_id /\ unpack_account_mint(G, account.data) # None
    THEN Append(pending, TokenSecondaryIndex(unpack_account_mint(G, account.data),
                                             account.pubkey, account.slot))
    ELSE pending

\* The owner buffer after queue_secondary_indexes: both program variants are
\* tried when index_token_owner is set.
QueuedOwnerIndex(pending, flag, account) ==
    IF flag
    THEN queue_token_owner_index_generic(
             queue_token_owner_index_generic(pending, "spl_token::Account",
                                             inline_spl_token_id, account),
             "spl_token_2022::Account", inline_spl_token_2022_id, account)
    ELSE pending

\* Faulty variant: the mint rows are queued whatever index_token_mint says.
QueuedMintIndex_ignores_flag(pending, flag, account) ==
    queue_token_mint_index_generic(
        queue_token_mint_index_generic(pending, "spl_token::Account",
                                       inline_spl_token_id, account),
        "spl_token_2022::Account", inline_spl_token_2022_id, account)

\* The mint buffer after queue_secondary_indexes.
QueuedMintIndex(pending, flag, account) ==
    IF flag
    THEN queue_token_mint_index_generic(
             queue_token_mint_index_generic(pending, "spl_token::Account",
                                            inline_spl_token_id, account),
             "spl_token_2022::Account", inline_spl_token_2022_id, account)
    ELSE pending

(* ------------------------------ immediate path ------------------------ *)

\* Faulty variant: the error of client.execute is logged and not returned.
update_token_owner_index_generic_swallows_error(tbl, statement, G, token_id, account, fail) ==
    IF account.owner = token_id /\ unpack_account_owner(G, account.data) # None
    THEN LET params == <<unpack_account_owner(G, account.data), account.pubkey,
                         account.slot>>
             result == Execute(tbl, statement, params, fail)
             issued == <<[stmt |-> statement, params |-> params]>>
         IN  Outcome(<<>>, result.tbl, "Ok", issued)
    ELSE Outcome(<<>>, tbl, "Ok", <<>>)

\* fn update_token_owner_index_generic::<G>(client, statement, token_id, account).
update_token_owner_index_generic(tbl, statement, G, token_id, account, fail) ==
    IF account.owner = token_id /\ unpack_account_owner(G, account.data) # None
    THEN LET params == <<unpack_account_owner(G, account.data), account.pubkey,
                         account.slot>>
             result == Execute(tbl, statement, params, fail)
             issued == <<[stmt |-> statement, params |-> params]>>
         IN  IF result.err
             THEN Outcome(<<>>, result.tbl, "AccountsUpdateError", issued)
             ELSE Outcome(<<>>, result.tbl, "Ok", issued)
    ELSE Outcome(<<>>, tbl, "Ok", <<>>)

\* fn update_token_mint_index_generic::<G>(client, statement, token_id, account).
update_token_mint_index_generic(tbl, statement, G, token_id, account, fail) ==
    IF account.owner = token_id /\ unpack_account_mint(G, account.data) # None
    THEN LET params == <<unpack_account_mint(G, account.data), account.pubkey,
                         account.slot>>
             result == Execute(tbl, statement, params, fail)
             issued == <<[stmt |-> statement, params |-> params]>>
         IN  IF result.err
             THEN Outcome(<<>>, result.tbl, "AccountsUpdateError", issued)
             ELSE Outcome(<<>>, result.tbl, "Ok", issued)
    ELSE Outcome(<<>>, tbl, "Ok", <<>>)

\* Faulty variant: only the spl_token variant is tried.
UpdateTokenOwnerIndex_first_variant_only(tbl, statement, account, fail) ==
    update_token_owner_index_generic(tbl, statement, "spl_token::Account",
                                     inline_spl_token_id, account, fail)

\* fn update_token_owner_index(client, statement, account): the spl_token
\* variant, `?`, then the spl_token_2022 variant.
UpdateTokenOwnerIndex(tbl, statement, account, fail) ==
    LET first == update_token_owner_index_generic(tbl, statement, "spl_token::Account",
                                                  inline_spl_token_id, account, fail)
    IN  IF first.ret # "Ok" THEN first
        ELSE LET second == update_token_owner_index_generic(
                               first.tbl, statement, "spl_token_2022::Account",
                               inline_spl_token_2022_id, account, fail)
             IN  Outcome(<<>>, second.tbl, second.ret, first.issued \o second.issued)

\* fn update_token_mint_index(client, statement, account).
UpdateTokenMintIndex(tbl, statement, account, fail) ==
    LET first == update_token_mint_index_generic(tbl, statement, "spl_token::Account",
                                                 inline_spl_token_id, account, fail)
    IN  IF first.ret # "Ok" THEN first
        ELSE LET second == update_token_mint_index_generic(
                               first.tbl, statement, "spl_token_2022::Account",
                               inline_spl_token_2022_id, account, fail)
             IN  Outcome(<<>>, second.tbl, second.ret, first.issued \o second.issued)

(* ------------------------------ history ------------------------------- *)

\* The elements of a sequence.
Range(seq) == {seq[i] : i \in 1..Len(seq)}

\* The rows carried by the statements a call sent.
IssuedRows(issued) ==
    UNION {Range(BoundRows(issued[i].stmt, issued[i].params)) : i \in 1..Len(issued)}

\* The rows a call appended to a buffer.
Appended(before, after) ==
    {after[i] : i \in (Len(before) + 1)..Len(after)}

\* A history `seen` (at most one row per key) with `rows` added: per key, the
\* row of the largest slot among those of `seen` and `rows`.
Record(seen, rows) ==
    LET all == seen \cup rows
    IN  {r \in all : \A q \in all :
            (q.owner = r.owner /\ q.account_key = r.account_key) => q.slot <= r.slot}

\* The record of a call kept in `last`: the operation, what it returned and
\* the statements it sent to the database with their parameters, in order.
Call(op, ret, issued) == [op |-> op, ret |-> ret, issued |-> issued]

(* ------------------------------ operations ---------------------------- *)

\* client.bulk_insert_token_owner_index_stmt.as_ref().unwrap() and
\* client.bulk_insert_token_mint_index_stmt.as_ref().unwrap(): the statement
\* prepared for the configured batch size, where there is one.
bulk_insert_token_owner_index_stmt ==
    client.bulk_insert_token_owner_index_stmt[1]

bulk_insert_token_mint_index_stmt ==
    client.bulk_insert_token_mint_index_stmt[1]

\* The connection wrapper kept in self.client: the two bulk statements, each
\* an Option (no element, or one), prepared by the bulk builders when their
\* index is enabled.
PostgresSqlClientWrapper(owner_stmt, mint_stmt) ==
    [borrow |-> {}, in_flight |-> {},
     bulk_insert_token_owner_index_stmt |-> owner_stmt,
     bulk_insert_token_mint_index_stmt  |-> mint_stmt]

\* The client after construction, for a configuration with the flags
\* <<index_token_owner, index_token_mint>> drawn from `flags`.
Constructed(flags) ==
    /\ batch_size \in 1..MaxBatch
    /\ \E f \in flags : index_token_owner = f[1] /\ index_token_mint = f[2]
    /\ pending_token_owner_index = <<>>
    /\ pending_token_mint_index = <<>>
    /\ db = [t \in TableNames |-> {}]
    /\ last = Call("new", "Ok", <<>>)
    /\ client = PostgresSqlClientWrapper(
                    IF index_token_owner
                    THEN prepare_bulk_token_index_insert_statement(
                             OWNER_TABLE, "owner_key", batch_size, FALSE).statement
                    ELSE <<>>,
                    IF index_token_mint
                    THEN prepare_bulk_token_index_insert_statement(
                             MINT_TABLE, "mint_key", batch_size, FALSE).statement
                    ELSE <<>>)
    /\ observed = [t \in TableNames |-> {}]
    /\ submitted = [t \in TableNames |-> {}]

\* Construction with the preparation of the bulk statement of an enabled
\* index failing: the builder's error is what the constructor returns, and
\* no client, buffer or statement comes to exist.
ConstructionFailed(flags) ==
    /\ batch_size \in 1..MaxBatch
    /\ \E f \in flags : index_token_owner = f[1] /\ index_token_mint = f[2]
    /\ pending_token_owner_index = <<>>
    /\ pending_token_mint_index = <<>>
    /\ db = [t \in TableNames |-> {}]
    /\ \E t \in TableNames :
          /\ IF t = OWNER_TABLE THEN index_token_owner ELSE index_token_mint
          /\ LET built == prepare_bulk_token_index_insert_statement(
                              t, SourceKeyName(t), batch_size, TRUE)
             IN  /\ last = Call("new", built.ret, <<>>)
                 /\ client = PostgresSqlClientWrapper(
                                 IF t = OWNER_TABLE THEN built.statement ELSE <<>>,
                                 IF t = MINT_TABLE THEN built.statement ELSE <<>>)
    /\ observed = [t \in TableNames |-> {}]
    /\ submitted = [t \in TableNames |-> {}]

\* Operations are called on a client that construction has returned.
ClientExists == last.op = "new" => last.ret = "Ok"

\* Len(pending) stays within the rows explored.
WithinBounds(pending) == Len(pending) < batch_size + MaxExcess

\* pub fn queue_secondary_indexes(&mut self, account)
queue_secondary_indexes ==
    \E account \in DbAccountInfo :
        LET owner_after == QueuedOwnerIndex(pending_token_owner_index,
                                            index_token_owner, account)
            mint_after  == QueuedMintIndex(pending_token_mint_index,
                                           index_token_mint, account)
        IN  /\ WithinBounds(pending_token_owner_index)
            /\ WithinBounds(pending_token_mint_index)
            /\ pending_token_owner_index' = owner_after
            /\ pending_token_mint_index' = mint_after
            /\ observed' = [observed EXCEPT
                   ![OWNER_TABLE] = Record(@, Appended(pending_token_owner_index, owner_after)),
                   ![MINT_TABLE]  = Record(@, Appended(pending_token_mint_index, mint_after))]
            /\ last' = Call("queue_secondary_indexes", "()", <<>>)
            /\ UNCHANGED <<batch_size, index_token_owner, index_token_mint, db, submitted>>

\* Faulty variant: the owner flush is handed the mint buffer.
bulk_insert_token_owner_index_mint_buffer ==
    \E fail \in BOOLEAN :
        LET out == bulk_insert_token_index_common(batch_size, db[OWNER_TABLE],
                       pending_token_mint_index, bulk_insert_token_owner_index_stmt, fail)
        IN  /\ index_token_owner
            /\ client.bulk_insert_token_owner_index_stmt # <<>>
            /\ pending_token_mint_index' = out.indexes
            /\ db' = [db EXCEPT ![OWNER_TABLE] = out.tbl]
            /\ submitted' = IF out.ret = "Ok"
                            THEN [submitted EXCEPT
                                     ![OWNER_TABLE] = Record(@, IssuedRows(out.issued))]
                            ELSE submitted
            /\ last' = Call("bulk_insert_token_owner_index", out.ret, out.issued)
            /\ UNCHANGED <<batch_size, index_token_owner, index_token_mint,
                           pending_token_owner_index, observed>>

\* pub fn bulk_insert_token_owner_index(&mut self): the statement is
\* unwrapped first, and exists when the owner index is enabled.
bulk_insert_token_owner_index ==
    \E fail \in BOOLEAN :
        LET out == bulk_insert_token_index_common(batch_size, db[OWNER_TABLE],
                       pending_token_owner_index, bulk_insert_token_owner_index_stmt, fail)
        IN  /\ index_token_owner
            /\ client.bulk_insert_token_owner_index_stmt # <<>>
            /\ pending_token_owner_index' = out.indexes
            /\ db' = [db EXCEPT ![OWNER_TABLE] = out.tbl]
            /\ submitted' = IF out.ret = "Ok"
                            THEN [submitted EXCEPT
                                     ![OWNER_TABLE] = Record(@, IssuedRows(out.issued))]
                            ELSE submitted
            /\ last' = Call("bulk_insert_token_owner_index", out.ret, out.issued)
            /\ UNCHANGED <<batch_size, index_token_owner, index_token_mint,
                           pending_token_mint_index, observed>>

\* pub fn bulk_insert_token_mint_index(&mut self)
bulk_insert_token_mint_index ==
    \E fail \in BOOLEAN :
        LET out == bulk_insert_token_index_common(batch_size, db[MINT_TABLE],
                       pending_token_mint_index, bulk_insert_token_mint_index_stmt, fail)
        IN  /\ index_token_mint
            /\ client.bulk_insert_token_mint_index_stmt # <<>>
            /\ pending_token_mint_index' = out.indexes
            /\ db' = [db EXCEPT ![MINT_TABLE] = out.tbl]
            /\ submitted' = IF out.ret = "Ok"
                            THEN [submitted EXCEPT
                                     ![MINT_TABLE] = Record(@, IssuedRows(out.issued))]
                            ELSE submitted
            /\ last' = Call("bulk_insert_token_mint_index", out.ret, out.issued)
            /\ UNCHANGED <<batch_size, index_token_owner, index_token_mint,
                           pending_token_owner_index, observed>>

\* Faulty variant: the immediate owner update also drops the buffered owner rows.
update_token_owner_index_draining ==
    \E account \in DbAccountInfo, fail \in BOOLEAN :
        LET out == UpdateTokenOwnerIndex(db[OWNER_TABLE],
                       build_single_token_owner_index_upsert_statement, account, fail)
        IN  /\ index_token_owner
            /\ db' = [db EXCEPT ![OWNER_TABLE] = out.tbl]
            /\ observed' = [observed EXCEPT
                               ![OWNER_TABLE] = Record(@, IssuedRows(out.issued))]
            /\ submitted' = IF out.ret = "Ok"
                            THEN [submitted EXCEPT
                                     ![OWNER_TABLE] = Record(@, IssuedRows(out.issued))]
                            ELSE submitted
            /\ last' = Call("update_token_owner_index", out.ret, out.issued)
            /\ pending_token_owner_index' = <<>>
            /\ UNCHANGED <<batch_size, index_token_owner, index_token_mint,
                           pending_token_mint_index>>

\* pub fn update_token_owner_index(client, statement, account), called with
\* the single-row owner statement, which exists when the owner index is enabled.
update_token_owner_index ==
    \E account \in DbAccountInfo, fail \in BOOLEAN :
        LET out == UpdateTokenOwnerIndex(db[OWNER_TABLE],
                       build_single_token_owner_index_upsert_statement, account, fail)
        IN  /\ index_token_owner
            /\ db' = [db EXCEPT ![OWNER_TABLE] = out.tbl]
            /\ observed' = [observed EXCEPT
                               ![OWNER_TABLE] = Record(@, IssuedRows(out.issued))]
            /\ submitted' = IF out.ret = "Ok"
                            THEN [submitted EXCEPT
                                     ![OWNER_TABLE] = Record(@, IssuedRows(out.issued))]
                            ELSE submitted
            /\ last' = Call("update_token_owner_index", out.ret, out.issued)
            /\ UNCHANGED <<batch_size, index_token_owner, index_token_mint,
                           pending_token_owner_index, pending_token_mint_index>>

\* pub fn update_token_mint_index(client, statement, account)
update_token_mint_index ==
    \E account \in DbAccountInfo, fail \in BOOLEAN :
        LET out == UpdateTokenMintIndex(db[MINT_TABLE],
                       build_single_token_mint_index_upsert_statement, account, fail)
        IN  /\ index_token_mint
            /\ db' = [db EXCEPT ![MINT_TABLE] = out.tbl]
            /\ observed' = [observed EXCEPT
                               ![MINT_TABLE] = Record(@, IssuedRows(out.issued))]
            /\ submitted' = IF out.ret = "Ok"
                            THEN [submitted EXCEPT
                                     ![MINT_TABLE] = Record(@, IssuedRows(out.issued))]
                            ELSE submitted
            /\ last' = Call("update_token_mint_index", out.ret, out.issued)
            /\ UNCHANGED <<batch_size, index_token_owner, index_token_mint,
                           pending_token_owner_index, pending_token_mint_index>>

\* Faulty variant: only the owner buffer is cleared.
clear_buffered_indexes_owner_only ==
    /\ pending_token_owner_index' = <<>>
    /\ last' = Call("clear_buffered_indexes", "()", <<>>)
    /\ UNCHANGED <<batch_size, index_token_owner, index_token_mint, db, observed,
                   submitted, pending_token_mint_index>>

\* pub fn clear_buffered_indexes(&mut self)
clear_buffered_indexes ==
    /\ pending_token_owner_index' = <<>>
    /\ pending_token_mint_index' = <<>>
    /\ last' = Call("clear_buffered_indexes", "()", <<>>)
    /\ UNCHANGED <<batch_size, index_token_owner, index_token_mint, db, observed, submitted>>

\* At most one index enabled: the public operations in any order.
Init == Constructed({<<TRUE, FALSE>>, <<FALSE, TRUE>>, <<FALSE, FALSE>>})

Next ==
    \/ queue_secondary_indexes /\ UNCHANGED client
    \/ bulk_insert_token_owner_index /\ UNCHANGED client
    \/ bulk_insert_token_mint_index /\ UNCHANGED client
    \/ update_token_owner_index /\ UNCHANGED client
    \/ update_token_mint_index /\ UNCHANGED client
    \/ clear_buffered_indexes /\ UNCHANGED client

Spec == Init /\ [][Next]_vars

\* Both indexes enabled: the operations of the buffered path in any order.
InitBoth == Constructed({<<TRUE, TRUE>>})

NextBoth ==
    \/ queue_secondary_indexes /\ UNCHANGED client
    \/ bulk_insert_token_owner_index /\ UNCHANGED client
    \/ bulk_insert_token_mint_index /\ UNCHANGED client
    \/ clear_buffered_indexes /\ UNCHANGED client

SpecBoth == InitBoth /\ [][NextBoth]_vars

\* The immediate path alone: single-row upserts in any order.
NextImmediate ==
    \/ update_token_owner_index /\ UNCHANGED client
    \/ update_token_mint_index /\ UNCHANGED client

SpecImmediate == Init /\ [][NextImmediate]_vars

\* Every combination of the two index flags, the smallest batch_size: the
\* operations of the buffered path in any order.
InitFlags ==
    /\ Constructed({<<TRUE, TRUE>>, <<TRUE, FALSE>>, <<FALSE, TRUE>>, <<FALSE, FALSE>>})
    /\ batch_size = 1

SpecFlags == InitFlags /\ [][NextBoth]_vars

\* One index enabled, the preparation of its bulk statement succeeding or
\* failing at construction: then the operations of the buffered path.
InitPrepare ==
    \/ Constructed({<<TRUE, FALSE>>, <<FALSE, TRUE>>})
    \/ ConstructionFailed({<<TRUE, FALSE>>, <<FALSE, TRUE>>})

NextPrepare ==
    \/ ClientExists /\ queue_secondary_indexes /\ UNCHANGED client
    \/ ClientExists /\ bulk_insert_token_owner_index /\ UNCHANGED client
    \/ ClientExists /\ bulk_insert_token_mint_index /\ UNCHANGED client
    \/ ClientExists /\ clear_buffered_indexes /\ UNCHANGED client

SpecPrepare == InitPrepare /\ [][NextPrepare]_vars

(* ------------------------------ callers ------------------------------- *)

\* The threads that may call into one SimplePostgresClient.
Callers == {"c1", "c2"}

\* Faulty variant: the connection is handed out as a shared reference, to any
\* caller that does not hold it yet.
get_mut_shared(c) ==
    /\ c \notin client.borrow
    /\ client' = [client EXCEPT !.borrow = @ \cup {c}]
    /\ UNCHANGED <<batch_size, index_token_owner, index_token_mint,
                   pending_token_owner_index, pending_token_mint_index, db, last,
                   observed, submitted>>

\* A caller enters an operation: `&mut self` and self.client.get_mut() in the
\* flushes and the queue, `client: &mut Client` in the immediate updates. A
\* mutable reference is exclusive: it exists only while no other one does.
get_mut(c) ==
    /\ client.borrow = {}
    /\ client' = [client EXCEPT !.borrow = @ \cup {c}]
    /\ UNCHANGED <<batch_size, index_token_owner, index_token_mint,
                   pending_token_owner_index, pending_token_mint_index, db, last,
                   observed, submitted>>

\* client.query(query, &values) / client.execute(statement, ..) is called by
\* the caller inside an operation: its statement is in flight until the
\* blocking call returns.
query(c) ==
    /\ c \in client.borrow
    /\ c \notin client.in_flight
    /\ index_token_owner \/ index_token_mint
    /\ client' = [client EXCEPT !.in_flight = @ \cup {c}]
    /\ UNCHANGED <<batch_size, index_token_owner, index_token_mint,
                   pending_token_owner_index, pending_token_mint_index, db, last,
                   observed, submitted>>

\* The statement of caller c has been executed and its operation returns: the
\* flush or immediate update takes effect, and the reference is given back.
query_returns(c) ==
    /\ c \in client.in_flight
    /\ \/ bulk_insert_token_owner_index
       \/ bulk_insert_token_mint_index
       \/ update_token_owner_index
       \/ update_token_mint_index
    /\ last'.issued # <<>>
    /\ client' = [client EXCEPT !.borrow = @ \ {c}, !.in_flight = @ \ {c}]

\* The operation of caller c returns without having sent a statement: a
\* queue, a flush of a buffer that is not full, an immediate update of an
\* account no variant applies to.
returns(c) ==
    /\ c \in client.borrow
    /\ c \notin client.in_flight
    /\ \/ queue_secondary_indexes
       \/ bulk_insert_token_owner_index
       \/ bulk_insert_token_mint_index
       \/ update_token_owner_index
       \/ update_token_mint_index
    /\ last'.issued = <<>>
    /\ client' = [client EXCEPT !.borrow = @ \ {c}]

\* One index enabled, the smallest batch_size, several callers: each
\* operation entered, its statement sent, and returned from, as separate steps.
InitCallers ==
    /\ Constructed({<<TRUE, FALSE>>, <<FALSE, TRUE>>})
    /\ batch_size = 1

NextCallers ==
    \E c \in Callers :
        \/ get_mut(c)
        \/ query(c)
        \/ query_returns(c)
        \/ returns(c)

SpecCallers == InitCallers /\ [][NextCallers]_vars

(* ------------------------------ properties ---------------------------- *)

\* The slot stored in `tbl` for (key, account_key); 0 when no row is stored.
PersistedSlot(tbl, key, account_key) ==
    IF \E e \in tbl : e.owner = key /\ e.account_key = account_key
    THEN (CHOOSE e \in tbl : e.owner = key /\ e.account_key = account_key).slot
    ELSE 0

IndexedKeys == OwnerKeys \cup MintKeys

\* The rows of the statements the last call sent.
LastRows == IssuedRows(last.issued)

FlushOps == {"bulk_insert_token_owner_index", "bulk_insert_token_mint_index"}

\* Per index table: its buffer, its flush, its immediate update and its statements.
Pending(t) ==
    IF t = OWNER_TABLE THEN pending_token_owner_index ELSE pending_token_mint_index

FlushOp(t) ==
    IF t = OWNER_TABLE THEN "bulk_insert_token_owner_index"
    ELSE "bulk_insert_token_mint_index"

UpdateOp(t) ==
    IF t = OWNER_TABLE THEN "update_token_owner_index" ELSE "update_token_mint_index"

BulkStatement(t) ==
    IF t = OWNER_TABLE THEN bulk_insert_token_owner_index_stmt
    ELSE bulk_insert_token_mint_index_stmt

SingleStatement(t) ==
    IF t = OWNER_TABLE THEN build_single_token_owner_index_upsert_statement
    ELSE build_single_token_mint_index_upsert_statement

\* The largest element of a non-empty set of integers.
Max(S) == CHOOSE x \in S : \A y \in S : y <= x

\* The slots the rows of `rows` carry for (key, account_key).
SlotsFor(rows, key, account_key) ==
    {r.slot : r \in {q \in rows : q.owner = key /\ q.account_key = account_key}}

\* The single-row upsert applied to each row of `rows` in turn, every
\* statement succeeding.
RECURSIVE SingleUpserts(_, _, _)
SingleUpserts(rows, tbl, stmt) ==
    IF rows = <<>> THEN tbl
    ELSE SingleUpserts(Tail(rows),
                       Execute(tbl, stmt, <<Head(rows).owner, Head(rows).account_key,
                                            Head(rows).slot>>, FALSE).tbl,
                       stmt)

\* C1: whatever the order in which successful single-row upserts arrive, the
\* slot stored for each (indexed_key, account_key) is the largest slot among
\* them (and no row is stored for a key none of them carried); at most one
\* row is stored per key.
C1_SingleUpsertsKeepMaximum ==
    \A t \in TableNames, k \in IndexedKeys, a \in Pubkeys :
        /\ PersistedSlot(db[t], k, a) = PersistedSlot(submitted[t], k, a)
        /\ Cardinality({e \in db[t] : e.owner = k /\ e.account_key = a}) <= 1

\* C1 witness: an upsert with a smaller slot has succeeded after one with a
\* larger slot for the same key, and the larger slot is the one stored.
C1_Witness ==
    /\ last.op = "update_token_owner_index"
    /\ last.ret = "Ok"
    /\ \E r \in LastRows : r.slot < PersistedSlot(db[OWNER_TABLE], r.owner, r.account_key)

\* C2 (as amended): in every reachable state the rows of each index table are,
\* per (indexed_key, account_key), the row of the largest slot among the rows
\* of the statements that succeeded (single-row upserts and flushes).
C2_PersistedIsMaximumSubmitted ==
    \A t \in TableNames : db[t] = submitted[t]

\* C2 witness: a flush has succeeded that carried, for some key, a slot
\* smaller than the one stored: the rows were delivered out of order.
C2_Witness ==
    /\ last.op \in FlushOps
    /\ last.ret = "Ok"
    /\ \E r \in LastRows :
           r.slot < PersistedSlot(db[last.issued[1].stmt.table], r.owner, r.account_key)

\* C2 as stated: in every reachable state the rows of each index table are,
\* per (indexed_key, account_key), the row of the largest slot the engine has
\* observed (queued or sent) for that key.
C2_PersistedIsMaximumObserved ==
    \A t \in TableNames : db[t] = observed[t]

\* C3: a flush sends the bulk statement exactly when its buffer holds
\* batch_size rows; with fewer or more rows it sends nothing, returns Ok and
\* changes neither the buffer nor the tables; and a buffer that does not hold
\* exactly batch_size rows loses rows only to clear_buffered_indexes.
C3_FlushIffExactlyBatchSize ==
    [][\A t \in TableNames :
          /\ last'.op = FlushOp(t) =>
                /\ (last'.issued # <<>>) <=> (Len(Pending(t)) = batch_size)
                /\ Len(Pending(t)) # batch_size =>
                      /\ last'.ret = "Ok"
                      /\ Pending(t)' = Pending(t)
                      /\ db' = db
          /\ (Len(Pending(t)) # batch_size /\ Len(Pending(t)') < Len(Pending(t))) =>
                last'.op = "clear_buffered_indexes"]_vars

\* C3 witness: a flush was called on a buffer holding more than batch_size
\* rows; it sent nothing, returned Ok and the rows are still buffered.
C3_Witness ==
    /\ last.op = "bulk_insert_token_owner_index"
    /\ last.issued = <<>>
    /\ last.ret = "Ok"
    /\ Len(pending_token_owner_index) > batch_size

C6_FlushEmptiesBufferOnEveryOutcome ==
    [][\A t \in TableNames :
          /\ Len(Pending(t)) = batch_size =>
                LET failed == bulk_insert_token_index_common(batch_size, db[t],
                                  Pending(t), BulkStatement(t), TRUE)
                IN  /\ failed.ret = "AccountsUpdateError"
                    /\ failed.indexes = <<>>
                    /\ failed.tbl = db[t]
          /\ (last'.op = FlushOp(t) /\ last'.issued # <<>>) =>
                /\ Pending(t)' = <<>>
                /\ last'.ret \in {"Ok", "AccountsUpdateError"}
                /\ last'.ret = "AccountsUpdateError" => db' = db
                /\ BoundRows(last'.issued[1].stmt, last'.issued[1].params) = Pending(t)
          /\ (last.op = FlushOp(t) /\ last.issued # <<>>
                /\ last'.op = "queue_secondary_indexes") =>
                Len(Pending(t)') <= 1]_vars

\* C6 witness: a flush has failed; its buffer is empty, it returned
\* AccountsUpdateError and a row it carried is not stored.
C6_Witness ==
    /\ last.op = "bulk_insert_token_owner_index"
    /\ last.ret = "AccountsUpdateError"
    /\ last.issued # <<>>
    /\ pending_token_owner_index = <<>>
    /\ \E r \in LastRows : PersistedSlot(db[OWNER_TABLE], r.owner, r.account_key) = 0

\* C7: the bulk statement a flush sends has batch_size value tuples, tuple i
\* (from 0) with the placeholders 3i+1, 3i+2, 3i+3; the flush supplies
\* 3 * batch_size parameters, as many as the placeholders, and the i-th
\* buffered row gives parameter 3i+1 its indexed key, 3i+2 its account key
\* and 3i+3 its slot.
C7_RowMajorPlaceholdersAndParameters ==
    [][\A t \in TableNames :
          (last'.op = FlushOp(t) /\ last'.issued # <<>>) =>
              LET sent == last'.issued[1]
                  N    == batch_size
              IN  /\ Len(last'.issued) = 1
                  /\ sent.stmt.table = t
                  /\ Len(sent.stmt.values) = N
                  /\ \A i \in 0..(N - 1) :
                        sent.stmt.values[i + 1] = <<3 * i + 1, 3 * i + 2, 3 * i + 3>>
                  /\ Len(sent.params) = 3 * N
                  /\ Len(sent.params) = Len(sent.stmt.values) * Len(sent.stmt.columns)
                  /\ \A i \in 0..(N - 1) :
                        /\ sent.params[3 * i + 1] = Pending(t)[i + 1].owner
                        /\ sent.params[3 * i + 2] = Pending(t)[i + 1].account_key
                        /\ sent.params[3 * i + 3] = Pending(t)[i + 1].slot]_vars

\* C7 witness: a flush with batch_size = 2 has sent a statement with six
\* parameters, for two rows of different account keys.
C7_Witness ==
    /\ batch_size = 2
    /\ last.op = "bulk_insert_token_mint_index"
    /\ Len(last.issued) = 1
    /\ Len(last.issued[1].params) = 6
    /\ last.issued[1].params[2] # last.issued[1].params[5]

\* C8: a flush that succeeds changes its table as the single-row upsert
\* applied to each buffered row in turn would: for every key, the slot stored
\* afterwards is the largest of the slot stored before and the slots the
\* batch carries for that key (a key of the batch is stored afterwards), and
\* the other table is unchanged.
C8_BulkFlushEqualsSingleUpserts ==
    [][\A t \in TableNames :
          (last'.op = FlushOp(t) /\ last'.issued # <<>> /\ last'.ret = "Ok") =>
              /\ db'[t] = SingleUpserts(Pending(t), db[t], SingleStatement(t))
              /\ \A k \in IndexedKeys, a \in Pubkeys :
                    PersistedSlot(db'[t], k, a) =
                        Max({PersistedSlot(db[t], k, a)} \cup SlotsFor(Range(Pending(t)), k, a))
              /\ \A u \in TableNames \ {t} : db'[u] = db[u]]_vars

\* C8 witness: a flush of two rows has succeeded and both rows' keys are stored.
C8_Witness ==
    /\ batch_size = 2
    /\ last.op = "bulk_insert_token_owner_index"
    /\ last.ret = "Ok"
    /\ Cardinality(LastRows) = 2
    /\ \A r \in LastRows : PersistedSlot(db[OWNER_TABLE], r.owner, r.account_key) >= r.slot
    /\ Cardinality(db[OWNER_TABLE]) = 2

\* C9: clear_buffered_indexes leaves both buffers empty, sends no statement
\* and leaves every stored row as it was.
C9_ClearEmptiesBothBuffersOnly ==
    [][last'.op = "clear_buffered_indexes" =>
          /\ pending_token_owner_index' = <<>>
          /\ pending_token_mint_index' = <<>>
          /\ last'.issued = <<>>
          /\ db' = db]_vars

\* C9 witness: clear_buffered_indexes has returned with both indexes
\* enabled: both buffers are empty, rows are stored in both tables, and a row
\* that was queued is not stored.
C9_Witness ==
    /\ last.op = "clear_buffered_indexes"
    /\ pending_token_owner_index = <<>>
    /\ pending_token_mint_index = <<>>
    /\ db[OWNER_TABLE] # {}
    /\ db[MINT_TABLE] # {}
    /\ observed[MINT_TABLE] # db[MINT_TABLE]

\* C10: update_token_owner_index and update_token_mint_index leave both
\* buffers as they were; they send at most one statement, the single-row
\* statement of their table with the three parameters of one row; the stored
\* slot of that row's key becomes the larger of the stored and the sent slot
\* when the call returns Ok, and no row changes when it does not; the other
\* table is unchanged.
C10_ImmediatePathLeavesBuffers ==
    [][\A t \in TableNames :
          last'.op = UpdateOp(t) =>
              /\ pending_token_owner_index' = pending_token_owner_index
              /\ pending_token_mint_index' = pending_token_mint_index
              /\ Len(last'.issued) <= 1
              /\ \A i \in 1..Len(last'.issued) :
                    /\ last'.issued[i].stmt = SingleStatement(t)
                    /\ Len(last'.issued[i].params) = 3
                    /\ last'.ret = "Ok" =>
                          db'[t] = SingleUpserts(
                                       BoundRows(last'.issued[i].stmt, last'.issued[i].params),
                                       db[t], SingleStatement(t))
              /\ (last'.ret # "Ok" \/ last'.issued = <<>>) => db' = db
              /\ \A u \in TableNames \ {t} : db'[u] = db[u]]_vars

\* C10 witness: an immediate owner update has succeeded while rows were
\* buffered, and they still are.
C10_Witness ==
    /\ last.op = "update_token_owner_index"
    /\ last.ret = "Ok"
    /\ last.issued # <<>>
    /\ Len(pending_token_owner_index) = batch_size

\* The token program ids the two variants are tried with.
TokenProgramIds == {inline_spl_token_id, inline_spl_token_2022_id}

\* The variant G that is tried together with token_id.
VariantOf(token_id) ==
    IF token_id = inline_spl_token_id THEN "spl_token::Account"
    ELSE "spl_token_2022::Account"

\* No variant yields an owner key (a mint key) for the account: its owning
\* program is neither token program, or the matching variant cannot unpack
\* its payload.
OwnerNotApplicable(a) ==
    a.owner \notin TokenProgramIds
        \/ unpack_account_owner(VariantOf(a.owner), a.data) = None

MintNotApplicable(a) ==
    a.owner \notin TokenProgramIds
        \/ unpack_account_mint(VariantOf(a.owner), a.data) = None

\* C11: for an account that no variant applies to, queue_secondary_indexes
\* appends nothing to either buffer and the immediate updates send no
\* statement, return Ok and change no row; an account of either token program
\* whose payload unpacks gets exactly one row (one statement), so a variant
\* that does not match is skipped and the other one still tried; every
\* buffered row comes from an account a variant applies to, and an immediate
\* update that sent nothing has returned Ok.
C11_NotApplicableIsSkipped ==
    /\ \A a \in DbAccountInfo, fail \in BOOLEAN :
          LET upd_owner == UpdateTokenOwnerIndex(db[OWNER_TABLE],
                               build_single_token_owner_index_upsert_statement, a, fail)
              upd_mint  == UpdateTokenMintIndex(db[MINT_TABLE],
                               build_single_token_mint_index_upsert_statement, a, fail)
              q_owner   == QueuedOwnerIndex(pending_token_owner_index, TRUE, a)
              q_mint    == QueuedMintIndex(pending_token_mint_index, TRUE, a)
          IN  /\ OwnerNotApplicable(a) =>
                     /\ q_owner = pending_token_owner_index
                     /\ upd_owner.issued = <<>>
                     /\ upd_owner.ret = "Ok"
                     /\ upd_owner.tbl = db[OWNER_TABLE]
              /\ MintNotApplicable(a) =>
                     /\ q_mint = pending_token_mint_index
                     /\ upd_mint.issued = <<>>
                     /\ upd_mint.ret = "Ok"
                     /\ upd_mint.tbl = db[MINT_TABLE]
              /\ ~OwnerNotApplicable(a) =>
                     /\ Len(q_owner) = Len(pending_token_owner_index) + 1
                     /\ Len(upd_owner.issued) = 1
              /\ ~MintNotApplicable(a) =>
                     /\ Len(q_mint) = Len(pending_token_mint_index) + 1
                     /\ Len(upd_mint.issued) = 1
    /\ \A t \in TableNames :
          /\ (last.op = UpdateOp(t) /\ last.issued = <<>>) => last.ret = "Ok"
          /\ \A r \in Range(Pending(t)) :
                \E a \in DbAccountInfo :
                    /\ r.account_key = a.pubkey /\ r.slot = a.slot
                    /\ IF t = OWNER_TABLE
                       THEN ~OwnerNotApplicable(a) /\ r.owner = a.data.owner
                       ELSE ~MintNotApplicable(a) /\ r.owner = a.data.mint

\* C11 witness: an immediate owner update was called with an account no
\* variant applies to: it sent nothing and returned Ok, with rows stored and
\* rows buffered.
C11_Witness ==
    /\ last.op = "update_token_owner_index"
    /\ last.ret = "Ok"
    /\ last.issued = <<>>
    /\ db[OWNER_TABLE] # {}
    /\ pending_token_owner_index # <<>>

\* C12: a call that sends a statement sends it once; when the statement
\* fails (the connection fails, or the database rejects the command) the call
\* returns AccountsUpdateError and no row changes; it returns Ok only when the
\* statement has taken effect; a failed immediate update leaves both buffers
\* as they were; and on a failing connection every immediate update of an
\* account a variant applies to returns AccountsUpdateError after one attempt.
C12_ExecutionFailureIsReturned ==
    [][\A t \in TableNames :
          /\ (last'.op \in {UpdateOp(t), FlushOp(t)} /\ last'.issued # <<>>) =>
                LET sent  == last'.issued[1]
                    clean == Execute(db[t], sent.stmt, sent.params, FALSE)
                IN  /\ Len(last'.issued) = 1
                    /\ last'.ret \in {"Ok", "AccountsUpdateError"}
                    /\ clean.err => last'.ret = "AccountsUpdateError"
                    /\ last'.ret = "Ok" => db'[t] = clean.tbl
                    /\ last'.ret = "AccountsUpdateError" => db' = db
                    /\ (last'.op = UpdateOp(t) /\ last'.ret = "AccountsUpdateError") =>
                          /\ pending_token_owner_index' = pending_token_owner_index
                          /\ pending_token_mint_index' = pending_token_mint_index
          /\ last'.op = UpdateOp(t) =>
                \A a \in DbAccountInfo :
                    LET failed == IF t = OWNER_TABLE
                                  THEN UpdateTokenOwnerIndex(db[t], SingleStatement(t), a, TRUE)
                                  ELSE UpdateTokenMintIndex(db[t], SingleStatement(t), a, TRUE)
                    IN  failed.issued # <<>> =>
                            /\ failed.ret = "AccountsUpdateError"
                            /\ Len(failed.issued) = 1
                            /\ failed.tbl = db[t]]_vars

\* C12 witness: an immediate mint update has failed: it returned
\* AccountsUpdateError after one statement, the row it carried is not stored
\* and the buffered rows are still buffered.
C12_Witness ==
    /\ last.op = "update_token_mint_index"
    /\ last.ret = "AccountsUpdateError"
    /\ Len(last.issued) = 1
    /\ \E r \in LastRows : PersistedSlot(db[MINT_TABLE], r.owner, r.account_key) = 0
    /\ pending_token_mint_index # <<>>

\* C13: at most one statement is in flight on the connection at any time,
\* whatever the order in which the callers enter the flushes and the
\* immediate updates: only the caller that holds the connection has a
\* statement executing, and one caller holds it at a time.
C13_OneStatementInFlight ==
    /\ Cardinality(client.in_flight) <= 1
    /\ client.in_flight \subseteq client.borrow
    /\ Cardinality(client.borrow) <= 1

\* C13 witness: a statement is in flight for one caller after a flush that
\* sent its statement has returned, with rows stored by it.
C13_Witness ==
    /\ client.in_flight # {}
    /\ last.op \in FlushOps
    /\ last.issued # <<>>
    /\ last.ret = "Ok"
    /\ db[OWNER_TABLE] \cup db[MINT_TABLE] # {}

\* The row queue_secondary_indexes derives from an account for a buffer.
DerivedRow(t, a) ==
    TokenSecondaryIndex(IF t = OWNER_TABLE THEN a.data.owner ELSE a.data.mint,
                        a.pubkey, a.slot)

\* C14: in queue_secondary_indexes each buffer follows its own flag: for an
\* account a variant applies to, the owner buffer gets the one row (owner key,
\* account key, slot) at its end when index_token_owner is set and is
\* unchanged when it is not, and the mint buffer gets the one row (mint key,
\* account key, slot) when index_token_mint is set and is unchanged when it
\* is not; the rows of one call carry the same account key and slot.
C14_FlagsActIndependently ==
    [][last'.op = "queue_secondary_indexes" =>
          /\ ~index_token_owner => pending_token_owner_index' = pending_token_owner_index
          /\ ~index_token_mint => pending_token_mint_index' = pending_token_mint_index
          /\ \E a \in DbAccountInfo :
                /\ pending_token_owner_index' =
                       IF index_token_owner /\ ~OwnerNotApplicable(a)
                       THEN Append(pending_token_owner_index, DerivedRow(OWNER_TABLE, a))
                       ELSE pending_token_owner_index
                /\ pending_token_mint_index' =
                       IF index_token_mint /\ ~MintNotApplicable(a)
                       THEN Append(pending_token_mint_index, DerivedRow(MINT_TABLE, a))
                       ELSE pending_token_mint_index
          /\ \A a \in DbAccountInfo :
                /\ ~OwnerNotApplicable(a) =>
                       QueuedOwnerIndex(pending_token_owner_index, index_token_owner, a) =
                           IF index_token_owner
                           THEN Append(pending_token_owner_index, DerivedRow(OWNER_TABLE, a))
                           ELSE pending_token_owner_index
                /\ ~MintNotApplicable(a) =>
                       QueuedMintIndex(pending_token_mint_index, index_token_mint, a) =
                           IF index_token_mint
                           THEN Append(pending_token_mint_index, DerivedRow(MINT_TABLE, a))
                           ELSE pending_token_mint_index]_vars

\* C14 witness: with only the owner index enabled a queue call has appended
\* an owner row and left the mint buffer empty.
C14_Witness ==
    /\ last.op = "queue_secondary_indexes"
    /\ index_token_owner /\ ~index_token_mint
    /\ Len(pending_token_owner_index) = 2
    /\ pending_token_owner_index[2].owner \in OwnerKeys
    /\ pending_token_mint_index = <<>>

\* The Option holding the bulk statement of a table in the client.
StoredBulkStatement(t) ==
    IF t = OWNER_TABLE THEN client.bulk_insert_token_owner_index_stmt
    ELSE client.bulk_insert_token_mint_index_stmt

\* C15: when client.prepare fails the bulk builder returns DataSchemaError
\* with a message that names the table, after the one call of prepare, and
\* carries no statement; a construction that ended with that error leaves
\* no statement and is followed by no operation; and the statement a flush
\* sends is the stored one, which a successful preparation has returned.
C15_PrepareFailureYieldsNoStatement ==
    [][/\ \A t \in TableNames, n \in 1..MaxBatch :
             LET failed == prepare_bulk_token_index_insert_statement(
                               t, SourceKeyName(t), n, TRUE)
                 built  == prepare_bulk_token_index_insert_statement(
                               t, SourceKeyName(t), n, FALSE)
             IN  /\ failed.ret = "DataSchemaError"
                 /\ t \in Range(failed.msg)
                 /\ failed.statement = <<>>
                 /\ failed.prepares = 1
                 /\ built.ret = "Ok"
                 /\ Len(built.statement) = 1
       /\ (last.op = "new" /\ last.ret = "DataSchemaError") =>
             /\ \A t \in TableNames : StoredBulkStatement(t) = <<>>
             /\ vars' = vars
       /\ \A t \in TableNames :
             (last'.op = FlushOp(t) /\ last'.issued # <<>>) =>
                 /\ StoredBulkStatement(t) # <<>>
                 /\ <<last'.issued[1].stmt>> = StoredBulkStatement(t)
                 /\ StoredBulkStatement(t) =
                        prepare_bulk_token_index_insert_statement(
                            t, SourceKeyName(t), batch_size, FALSE).statement]_vars

\* C15 witness: construction has failed with DataSchemaError on preparing
\* the owner statement for batch_size 2, and no statement is stored.
C15_Witness ==
    /\ last.op = "new"
    /\ last.ret = "DataSchemaError"
    /\ index_token_owner
    /\ batch_size = 2
    /\ client.bulk_insert_token_owner_index_stmt = <<>>

\* C16: no step lowers a stored slot or removes a stored row: after every
\* operation, successful or failed, each (indexed_key, account_key) that was
\* stored is still stored, in one row, with a slot at least as large.
C16_PersistedSlotNeverDecreases ==
    [][\A t \in TableNames :
          /\ \A e \in db[t] :
                \E f \in db'[t] :
                    /\ f.owner = e.owner
                    /\ f.account_key = e.account_key
                    /\ f.slot >= e.slot
          /\ \A k \in IndexedKeys, a \in Pubkeys :
                PersistedSlot(db'[t], k, a) >= PersistedSlot(db[t], k, a)]_vars

\* C16 witness: a flush has failed that carried a slot smaller than the one
\* stored for its key, and the larger slot is still stored.
C16_Witness ==
    /\ last.op \in FlushOps
    /\ last.ret = "AccountsUpdateError"
    /\ last.issued # <<>>
    /\ \E r \in LastRows :
           PersistedSlot(db[last.issued[1].stmt.table], r.owner, r.account_key) > r.slot

\* The program ids, among the two tried, that an account's owning program equals.
MatchingTokenIds(a) == {id \in TokenProgramIds : a.owner = id}

\* C17: the two token program ids differ and an account has one owning
\* program, so at most one of the two variants tried takes an account: one
\* queue_secondary_indexes call appends at most one row to each buffer, after
\* the rows already there, and one immediate update sends at most one
\* statement.
C17_AtMostOneRowPerCall ==
    [][/\ inline_spl_token_id # inline_spl_token_2022_id
       /\ \A a \in DbAccountInfo : Cardinality(MatchingTokenIds(a)) <= 1
       /\ \A t \in TableNames :
             /\ last'.op = "queue_secondary_indexes" =>
                    /\ Len(Pending(t)') <= Len(Pending(t)) + 1
                    /\ SubSeq(Pending(t)', 1, Len(Pending(t))) = Pending(t)
                    /\ Cardinality(Appended(Pending(t), Pending(t)')) <= 1
             /\ last'.op = UpdateOp(t) => Len(last'.issued) <= 1]_vars

\* C17 witness: a queue_secondary_indexes call has appended the one mint row
\* of its account to the empty mint buffer, with rows stored.
C17_Witness ==
    /\ last.op = "queue_secondary_indexes"
    /\ index_token_mint
    /\ Len(pending_token_mint_index) = 1
    /\ db[MINT_TABLE] # {}

\* C18: a flush of one index, whether its statement succeeds, fails or is not
\* sent, leaves the buffer and the table of the other index as they were; a
\* failed flush empties its own buffer only.
C18_OwnerAndMintPathsDoNotInterfere ==
    [][\A t \in TableNames :
          last'.op = FlushOp(t) =>
              /\ \A u \in TableNames \ {t} :
                    /\ Pending(u)' = Pending(u)
                    /\ db'[u] = db[u]
              /\ \A r \in IssuedRows(last'.issued) : r \in Range(Pending(t))
              /\ \A i \in 1..Len(last'.issued) : last'.issued[i].stmt.table = t]_vars

\* C18 witness: with both indexes enabled the owner flush has failed and
\* emptied the owner buffer; the mint buffer is still full and the rows of
\* the mint table are still stored.
C18_Witness ==
    /\ last.op = "bulk_insert_token_owner_index"
    /\ last.ret = "AccountsUpdateError"
    /\ last.issued # <<>>
    /\ pending_token_owner_index = <<>>
    /\ Len(pending_token_mint_index) = batch_size
    /\ db[MINT_TABLE] # {}

====
